---- MODULE Spec2Model ----
(***************************************************************************)
(* Model of lib/mutations/NotifyList.js (slimdom.js): the list that queues *)
(* MutationRecords per observer and reports them from deferred tasks.      *)
(*                                                                         *)
(* The host's setImmediate / setTimeout(.., 0) is the FIFO sequence tasks. *)
(* Every handler (a producer's call, the deferred flush function, a        *)
(* deferred delivery function) runs to completion as one step.             *)
(*                                                                         *)
(* Program state: recordQueue, notifyList, scheduled, tasks, numCallbacks. *)
(* History (never read by the program): calls, drained, callLog,           *)
(* cleanupLog, roundLog, and the id / from tags of queue entries.          *)
(***************************************************************************)
EXTENDS Integers, Sequences, FiniteSets, TLC

\* ---------------------------------------------------------------- bounds
\* the MutationObservers and the MutationRecords of a behaviour
Observers == {"A", "B"}
Records == {"r1", "r2"}
\* total number of queueRecord calls made in one behaviour
MaxCalls == 2

VARIABLES
    recordQueue,   \* observer.recordQueue, per observer: sequence of entries
    notifyList,    \* this.notifyList: sequence of observers
    scheduled,     \* this.scheduled: TRUE for a timer handle, FALSE for null
    tasks,         \* the host's queue of deferred functions, oldest first
    numCallbacks,  \* the numCallbacks local of each invokeMutationObservers call
    calls,         \* history: number of queueRecord calls made so far
    drained,       \* history: the entries removed by clear() / an external takeRecords()
    callLog,       \* history: the callback invocations, in order
    cleanupLog,    \* history: the removeTransientRegisteredObserversForObserver calls
    roundLog       \* history: notifyList and recordQueue as each flush body found them

vars == <<recordQueue, notifyList, scheduled, tasks, numCallbacks,
          calls, drained, callLog, cleanupLog, roundLog>>

\* The state as one value, so that a handler is a function from state to state
\* and handlers can call each other as they do in the source.
State ==
    [recordQueue |-> recordQueue, notifyList |-> notifyList, scheduled |-> scheduled,
     tasks |-> tasks, numCallbacks |-> numCallbacks, calls |-> calls,
     drained |-> drained, callLog |-> callLog, cleanupLog |-> cleanupLog,
     roundLog |-> roundLog]

Becomes(s) ==
    /\ recordQueue' = s.recordQueue
    /\ notifyList' = s.notifyList
    /\ scheduled' = s.scheduled
    /\ tasks' = s.tasks
    /\ numCallbacks' = s.numCallbacks
    /\ calls' = s.calls
    /\ drained' = s.drained
    /\ callLog' = s.callLog
    /\ cleanupLog' = s.cleanupLog
    /\ roundLog' = s.roundLog

\* ------------------------------------------------------------- helpers
Range(seq) == {seq[i] : i \in DOMAIN seq}

Ids(queue) == {queue[i].id : i \in DOMAIN queue}

Recs(queue) == [i \in DOMAIN queue |-> queue[i].rec]

\* A deferred function in the host's queue.  round / observer / queue are the
\* closure and the bound arguments of a delivery function; unused for a flush.
FlushTask == [type |-> "flush", round |-> 0, observer |-> "none", queue |-> <<>>]

DeliveryTask(round, observer, queue) ==
    [type |-> "deliver", round |-> round, observer |-> observer, queue |-> queue]

\* a host that runs the function handed over last first
scheduleFront(s, task) == [s EXCEPT !.tasks = <<task>> \o @]

\* schedule(callback, thisArg, args...): hand the function to the host, which
\* runs it later, in the order of the schedule calls.
schedule(s, task) == [s EXCEPT !.tasks = Append(@, task)]

\* scheduleInvoke without its "already scheduled" test
scheduleInvokeAlways(s) == [schedule(s, FlushTask) EXCEPT !.scheduled = TRUE]

\* scheduleInvoke that does not keep the handle schedule returns
scheduleInvokeNoHandle(s) == IF s.scheduled THEN s ELSE schedule(s, FlushTask)

\* NotifyList.prototype.scheduleInvoke
scheduleInvoke(s) ==
    IF s.scheduled
        THEN s
        ELSE [schedule(s, FlushTask) EXCEPT !.scheduled = TRUE]

\* queueRecord that reports to the observer at once instead of deferring
queueRecordSync(s, observer, record, from) ==
    LET q == s.recordQueue[observer]
        entry == [rec |-> record, id |-> s.calls + 1, from |-> from]
    IN  [s EXCEPT
            !.calls = @ + 1,
            !.callLog = Append(@, [observer |-> observer, queue |-> <<entry>>,
                                   round |-> 0, raised |-> FALSE,
                                   cleanups |-> Len(s.cleanupLog)])]

\* queueRecord without the test for the queue's last record
queueRecordNoDedup(s, observer, record, from) ==
    scheduleInvoke(
        [s EXCEPT
            !.calls = @ + 1,
            !.recordQueue[observer] =
                Append(@, [rec |-> record, id |-> s.calls + 1, from |-> from]),
            !.notifyList = Append(@, observer)])

\* queueRecord that puts the observer on the notifyList before the test
queueRecordNotifiesDup(s, observer, record, from) ==
    LET q == s.recordQueue[observer]
        s1 == [s EXCEPT !.calls = @ + 1, !.notifyList = Append(@, observer)]
    IN  IF Len(q) > 0 /\ q[Len(q)].rec = record
            THEN s1
            ELSE scheduleInvoke(
                    [s1 EXCEPT !.recordQueue[observer] =
                        Append(q, [rec |-> record, id |-> s.calls + 1, from |-> from])])

\* NotifyList.prototype.queueRecord.  from is history: 0 for a producer's call,
\* the round of the running callback for a call made by a callback.
queueRecord(s, observer, record, from) ==
    LET q == s.recordQueue[observer]
        s1 == [s EXCEPT !.calls = @ + 1]
    IN  IF Len(q) > 0 /\ q[Len(q)].rec = record
            THEN s1
            ELSE scheduleInvoke(
                    [s1 EXCEPT
                        !.recordQueue[observer] =
                            Append(q, [rec |-> record, id |-> s.calls + 1, from |-> from]),
                        !.notifyList = Append(@, observer)])

\* observer.takeRecords(): returns the queue and leaves the observer an empty one.
\* The returned value is s.recordQueue[observer] of the state before.
takeRecords(s, observer) == [s EXCEPT !.recordQueue[observer] = <<>>]

\* The loop of NotifyList.prototype.clear, from index i (1-based) to l.
RECURSIVE clearLoop(_, _, _)
clearLoop(s, i, l) ==
    IF i > l
        THEN s
        ELSE LET observer == s.notifyList[i]
                 taken == s.recordQueue[observer]
             IN  clearLoop([takeRecords(s, observer) EXCEPT !.drained = @ \cup Range(taken)],
                           i + 1, l)

\* clear that also forgets the armed flush
clearResetsScheduled(s) ==
    [clearLoop(s, 1, Len(s.notifyList)) EXCEPT !.notifyList = <<>>, !.scheduled = FALSE]

\* NotifyList.prototype.clear
clear(s) == [clearLoop(s, 1, Len(s.notifyList)) EXCEPT !.notifyList = <<>>]

\* removeTransientRegisteredObserversForObserver(observer): touches only the
\* registeredObservers of the observer's targets, nothing of the NotifyList.
removeTransientRegisteredObserversForObserver(s, observer, round, where) ==
    [s EXCEPT !.cleanupLog =
        Append(@, [observer |-> observer, round |-> round, where |-> where])]

\* the loop reading observer.recordQueue instead of calling takeRecords()
RECURSIVE invokeLoopNoTake(_, _, _, _)
invokeLoopNoTake(s, round, i, l) ==
    IF i > l
        THEN s
        ELSE LET observer == s.notifyList[i]
                 queue == s.recordQueue[observer]
             IN  IF Len(queue) = 0
                     THEN invokeLoopNoTake(
                            removeTransientRegisteredObserversForObserver(
                                s, observer, round, "flush"),
                            round, i + 1, l)
                     ELSE invokeLoopNoTake(
                            schedule([s EXCEPT !.numCallbacks[round] = @ + 1],
                                     DeliveryTask(round, observer, queue)),
                            round, i + 1, l)

\* the loop skipping an observer without records, with no cleanup
RECURSIVE invokeLoopNoCleanup(_, _, _, _)
invokeLoopNoCleanup(s, round, i, l) ==
    IF i > l
        THEN s
        ELSE LET observer == s.notifyList[i]
                 queue == s.recordQueue[observer]
                 s1 == takeRecords(s, observer)
             IN  IF Len(queue) = 0
                     THEN invokeLoopNoCleanup(s1, round, i + 1, l)
                     ELSE invokeLoopNoCleanup(
                            schedule([s1 EXCEPT !.numCallbacks[round] = @ + 1],
                                     DeliveryTask(round, observer, queue)),
                            round, i + 1, l)

\* the loop walking the list from its end, as the loop over observer.targets does
RECURSIVE invokeLoopReverse(_, _, _, _)
invokeLoopReverse(s, round, i, l) ==
    IF i > l
        THEN s
        ELSE LET observer == s.notifyList[l - i + 1]
                 queue == s.recordQueue[observer]
                 s1 == takeRecords(s, observer)
             IN  IF Len(queue) = 0
                     THEN invokeLoopReverse(
                            removeTransientRegisteredObserversForObserver(
                                s1, observer, round, "flush"),
                            round, i + 1, l)
                     ELSE invokeLoopReverse(
                            schedule([s1 EXCEPT !.numCallbacks[round] = @ + 1],
                                     DeliveryTask(round, observer, queue)),
                            round, i + 1, l)

\* the loop counting every observer of the list, with or without records
RECURSIVE invokeLoopCountsAll(_, _, _, _)
invokeLoopCountsAll(s, round, i, l) ==
    IF i > l
        THEN s
        ELSE LET observer == s.notifyList[i]
                 queue == s.recordQueue[observer]
                 s1 == [takeRecords(s, observer) EXCEPT !.numCallbacks[round] = @ + 1]
             IN  IF Len(queue) = 0
                     THEN invokeLoopCountsAll(
                            removeTransientRegisteredObserversForObserver(
                                s1, observer, round, "flush"),
                            round, i + 1, l)
                     ELSE invokeLoopCountsAll(
                            schedule(s1, DeliveryTask(round, observer, queue)),
                            round, i + 1, l)

\* The loop of NotifyList.prototype.invokeMutationObservers, from index i to l.
RECURSIVE invokeLoop(_, _, _, _)
invokeLoop(s, round, i, l) ==
    IF i > l
        THEN s
        ELSE LET observer == s.notifyList[i]
                 queue == s.recordQueue[observer]
                 s1 == takeRecords(s, observer)
             IN  IF Len(queue) = 0
                     THEN invokeLoop(
                            removeTransientRegisteredObserversForObserver(
                                s1, observer, round, "flush"),
                            round, i + 1, l)
                     ELSE invokeLoop(
                            schedule([s1 EXCEPT !.numCallbacks[round] = @ + 1],
                                     DeliveryTask(round, observer, queue)),
                            round, i + 1, l)

\* NotifyList.prototype.invokeMutationObservers.  Each call has its own
\* numCallbacks; the call's index in numCallbacks is its round.
invokeMutationObservers(s) ==
    LET round == Len(s.numCallbacks) + 1
        s0 == [s EXCEPT
                 !.numCallbacks = Append(@, 0),
                 !.roundLog = Append(@, [notifyList |-> s.notifyList,
                                         recordQueue |-> s.recordQueue])]
    IN  [invokeLoop(s0, round, 1, Len(s.notifyList)) EXCEPT !.notifyList = <<>>]

\* the flush function without "this.scheduled = null"
flushFunctionKeepScheduled(s) == invokeMutationObservers(s)

\* the flush function arming the next flush whenever it has run
flushFunctionRearms(s) ==
    scheduleInvoke(invokeMutationObservers([s EXCEPT !.scheduled = FALSE]))

\* The function scheduleInvoke hands to schedule.
flushFunction(s) == invokeMutationObservers([s EXCEPT !.scheduled = FALSE])

\* A collaborator that re-enters the NotifyList from inside the flush body: in
\* iteration at of the loop, the observer's takeRecords() (step "take", line
\* 106) or the cleanup (step "cleanup", line 109) calls
\* queueRecord(observer, record) before it returns.
Hooks ==
    {[at |-> a, step |-> st, observer |-> o, record |-> r] :
        a \in 1..MaxCalls, st \in {"take", "cleanup"}, o \in Observers, r \in Records}

\* The loop of invokeMutationObservers with such a collaborator.  An entry
\* enqueued from inside the flush body of round k carries from = -k.
RECURSIVE invokeLoopReentrant(_, _, _, _, _)
invokeLoopReentrant(s, round, i, l, hook) ==
    IF i > l
        THEN s
        ELSE LET observer == s.notifyList[i]
                 queue == s.recordQueue[observer]
                 taken == takeRecords(s, observer)
                 s1 == IF hook.at = i /\ hook.step = "take"
                           THEN queueRecord(taken, hook.observer, hook.record, -round)
                           ELSE taken
             IN  IF Len(queue) = 0
                     THEN LET cleaned == removeTransientRegisteredObserversForObserver(
                                            s1, observer, round, "flush")
                              s2 == IF hook.at = i /\ hook.step = "cleanup"
                                        THEN queueRecord(cleaned, hook.observer,
                                                         hook.record, -round)
                                        ELSE cleaned
                          IN  invokeLoopReentrant(s2, round, i + 1, l, hook)
                     ELSE invokeLoopReentrant(
                            schedule([s1 EXCEPT !.numCallbacks[round] = @ + 1],
                                     DeliveryTask(round, observer, queue)),
                            round, i + 1, l, hook)

\* invokeMutationObservers with such a collaborator: l is read once, before
\* the loop (line 104), and the list is truncated after it (line 131).
invokeMutationObserversReentrant(s, hook) ==
    LET round == Len(s.numCallbacks) + 1
        s0 == [s EXCEPT
                 !.numCallbacks = Append(@, 0),
                 !.roundLog = Append(@, [notifyList |-> s.notifyList,
                                         recordQueue |-> s.recordQueue])]
    IN  [invokeLoopReentrant(s0, round, 1, Len(s.notifyList), hook)
            EXCEPT !.notifyList = <<>>]

\* The function scheduleInvoke hands to schedule, with such a collaborator.
flushFunctionReentrant(s, hook) ==
    invokeMutationObserversReentrant([s EXCEPT !.scheduled = FALSE], hook)

\* What a callback does when invoked: it makes the queueRecord calls of enq
\* (a sequence of <<observer, record>>) and then returns or raises.
Behaviours ==
    {[enq |-> e, raises |-> b] :
        e \in {<<>>} \cup {<<<<o, r>>>> : o \in Observers, r \in Records},
        b \in BOOLEAN}

RECURSIVE callbackBody(_, _, _, _)
callbackBody(s, round, enq, i) ==
    IF i > Len(enq)
        THEN s
        ELSE callbackBody(queueRecord(s, enq[i][1], enq[i][2], round), round, enq, i + 1)

\* observer.callback.call(null, queue, observer).  The history entry notes how
\* many cleanups had been made when the callback was entered.
callback(s, task, cb) ==
    callbackBody(
        [s EXCEPT !.callLog =
            Append(@, [observer |-> task.observer, queue |-> task.queue,
                       round |-> task.round, raised |-> cb.raises,
                       cleanups |-> Len(s.cleanupLog)])],
        task.round, cb.enq, 1)

\* the finally block emptying the notifyList when the round's last delivery
\* is done, as the flush body does
finallyBlockClearsList(s, round) ==
    LET s1 == [s EXCEPT !.numCallbacks[round] = @ - 1]
    IN  IF s1.numCallbacks[round] = 0
            THEN scheduleInvoke([s1 EXCEPT !.notifyList = <<>>])
            ELSE s1

\* the finally block arming the flush only when the notifyList holds something
finallyBlockIfPending(s, round) ==
    LET s1 == [s EXCEPT !.numCallbacks[round] = @ - 1]
    IN  IF s1.numCallbacks[round] = 0 /\ s1.notifyList # <<>>
            THEN scheduleInvoke(s1)
            ELSE s1

\* The finally block of the delivery function: runs whether or not the
\* callback raised.
finallyBlock(s, round) ==
    LET s1 == [s EXCEPT !.numCallbacks[round] = @ - 1]
    IN  IF s1.numCallbacks[round] = 0 THEN scheduleInvoke(s1) ELSE s1

\* the delivery function with the decrement after the callback instead of in
\* a finally block: a raising callback skips it
deliveryFunctionNoFinally(s, task, cb) ==
    LET s1 == callback(
                removeTransientRegisteredObserversForObserver(
                    s, task.observer, task.round, "deliver"),
                task, cb)
    IN  IF cb.raises THEN s1 ELSE finallyBlock(s1, task.round)

\* the delivery function with the cleanup after the callback instead of
\* before it
deliveryFunctionCleanupAfter(s, task, cb) ==
    finallyBlock(
        removeTransientRegisteredObserversForObserver(
            callback(s, task, cb), task.observer, task.round, "deliver"),
        task.round)

\* The function invokeMutationObservers hands to schedule for one observer.
deliveryFunction(s, task, cb) ==
    finallyBlock(
        callback(
            removeTransientRegisteredObserversForObserver(
                s, task.observer, task.round, "deliver"),
            task, cb),
        task.round)

\* ------------------------------------------------------------- actions
Init ==
    /\ recordQueue = [o \in Observers |-> <<>>]
    /\ notifyList = <<>>
    /\ scheduled = FALSE
    /\ tasks = <<>>
    /\ numCallbacks = <<>>
    /\ calls = 0
    /\ drained = {}
    /\ callLog = <<>>
    /\ cleanupLog = <<>>
    /\ roundLog = <<>>

\* a producer calls notifyList.queueRecord(observer, record)
QueueRecord(observer, record) ==
    /\ calls < MaxCalls
    /\ Becomes(queueRecord(State, observer, record, 0))

\* a producer calls notifyList.clear()
Clear ==
    /\ Becomes(clear(State))

\* a user calls observer.takeRecords()
TakeRecords(observer) ==
    /\ Becomes([takeRecords(State, observer) EXCEPT
                    !.drained = @ \cup Range(recordQueue[observer])])

\* the host runs the oldest deferred function, a flush
RunFlush ==
    /\ tasks # <<>>
    /\ Head(tasks).type = "flush"
    /\ Becomes(flushFunction([State EXCEPT !.tasks = Tail(@)]))

\* the host runs the oldest deferred function, a delivery
RunDelivery(cb) ==
    /\ tasks # <<>>
    /\ Head(tasks).type = "deliver"
    /\ calls + Len(cb.enq) <= MaxCalls
    /\ Becomes(deliveryFunction([State EXCEPT !.tasks = Tail(@)], Head(tasks), cb))

Next ==
    \/ \E o \in Observers, r \in Records : QueueRecord(o, r)
    \/ Clear
    \/ \E o \in Observers : TakeRecords(o)
    \/ RunFlush
    \/ \E cb \in Behaviours : RunDelivery(cb)

Spec == Init /\ [][Next]_vars

\* the host runs the oldest deferred function, a flush, and a collaborator
\* calls queueRecord from inside the flush body
RunFlushReentrant(hook) ==
    /\ tasks # <<>>
    /\ Head(tasks).type = "flush"
    /\ calls < MaxCalls
    /\ LET s == flushFunctionReentrant([State EXCEPT !.tasks = Tail(@)], hook)
       IN  /\ s.calls = calls + 1
           /\ Becomes(s)

NextReentrant ==
    \/ Next
    \/ \E hook \in Hooks : RunFlushReentrant(hook)

\* The NotifyList with collaborators that may call queueRecord from inside
\* the flush body.
ReentrantSpec == Init /\ [][NextReentrant]_vars

\* The host runs every deferred function it was handed.
FairSpec == Spec /\ WF_vars(RunFlush) /\ WF_vars(\E cb \in Behaviours : RunDelivery(cb))

\* ------------------------------------------------- history, read back
\* the deliveries of round k not yet run, oldest first
TasksOfRound(k) == SelectSeq(tasks, LAMBDA t : t.type = "deliver" /\ t.round = k)

\* the callback invocations of round k, in order
CallsOfRound(k) == SelectSeq(callLog, LAMBDA c : c.round = k)

Target(x) == [observer |-> x.observer, queue |-> x.queue]

\* the deliveries round k armed, in the order the host runs them: those
\* already run, then those still in the host's queue
ArmedSeq(k) ==
    [i \in 1..Len(CallsOfRound(k)) |-> Target(CallsOfRound(k)[i])]
        \o [i \in 1..Len(TasksOfRound(k)) |-> Target(TasksOfRound(k)[i])]

\* the observers of list in the order of their first occurrence
RECURSIVE FirstOccurrences(_)
FirstOccurrences(list) ==
    IF list = <<>>
        THEN <<>>
        ELSE LET front == FirstOccurrences(SubSeq(list, 1, Len(list) - 1))
                 last == list[Len(list)]
             IN  IF last \in Range(front) THEN front ELSE Append(front, last)

Occurrences(list, o) == Cardinality({i \in DOMAIN list : list[i] = o})

\* the observers with records when the flush body of round k began, in the
\* order of their first occurrence in the notifyList it found, each with the
\* whole queue it had then
EnqueueOrder(k) ==
    LET firsts == SelectSeq(FirstOccurrences(roundLog[k].notifyList),
                            LAMBDA o : roundLog[k].recordQueue[o] # <<>>)
    IN  [i \in DOMAIN firsts |->
            [observer |-> firsts[i], queue |-> roundLog[k].recordQueue[firsts[i]]]]

Rounds == DOMAIN roundLog

QueuedIds == UNION {Ids(recordQueue[o]) : o \in Observers}

ArmedIds == UNION {Ids(tasks[i].queue) : i \in DOMAIN tasks}

DrainedIds == {e.id : e \in drained}

DeliveredIds == UNION {Ids(callLog[i].queue) : i \in DOMAIN callLog}

\* the host has run no deferred function yet
BeforeFirstTurn == roundLog = <<>>

NoAdjacentDup(queue) == \A i \in 1..(Len(queue) - 1) : queue[i].rec # queue[i + 1].rec

ProducerEnqueue == \E o \in Observers, r \in Records : QueueRecord(o, r)

\* --------------------------------------------------------------- claims

\* C1: a step that executes queueRecord invokes no callback.  A callback is
\* invoked only by a step that runs a deferred delivery function, and that
\* delivery was armed by a flush body that ran in an earlier step, on records
\* queued before that flush body ran.
C1_NoSynchronousCallback ==
    [][ /\ ProducerEnqueue => callLog' = callLog
        /\ callLog' # callLog =>
            /\ tasks # <<>>
            /\ Head(tasks).type = "deliver"
            /\ Head(tasks).round \in Rounds
            /\ Len(callLog') = Len(callLog) + 1
            /\ callLog'[Len(callLog')].queue = Head(tasks).queue
            /\ Ids(Head(tasks).queue) \subseteq 1..calls ]_vars

\* a callback has been invoked for a record a producer enqueued
C1_Witness ==
    \E i \in DOMAIN callLog : \E j \in DOMAIN callLog[i].queue :
        callLog[i].queue[j].from = 0

\* in how many places entry id is: queues, armed batches, delivered batches, drained
C2_Places(id) ==
    Cardinality({o \in Observers : id \in Ids(recordQueue[o])})
        + Cardinality({i \in DOMAIN tasks : id \in Ids(tasks[i].queue)})
        + Cardinality({i \in DOMAIN callLog : id \in Ids(callLog[i].queue)})
        + (IF id \in DrainedIds THEN 1 ELSE 0)

\* no entry is in two places, or twice in one queue or batch; no batch is empty
C2_OnePlace ==
    /\ \A id \in 1..calls : C2_Places(id) <= 1
    /\ \A o \in Observers : \A i \in DOMAIN recordQueue[o] : \A j \in DOMAIN recordQueue[o] :
            recordQueue[o][i].id = recordQueue[o][j].id => i = j
    /\ \A i \in DOMAIN callLog :
            /\ \A j \in DOMAIN callLog[i].queue : \A k \in DOMAIN callLog[i].queue :
                    callLog[i].queue[j].id = callLog[i].queue[k].id => j = k
            /\ callLog[i].queue # <<>>

\* C2: (the host runs every deferred function) an entry that queueRecord
\* appended is in one place only, and never in two batches; unless clear() or
\* an external takeRecords() removes it, it is eventually passed to its
\* observer's callback.
C2_DeliveredExactlyOnce ==
    /\ []C2_OnePlace
    /\ \A id \in 1..MaxCalls :
            (id \in QueuedIds) ~> (id \in DeliveredIds \/ id \in DrainedIds)

\* two rounds have delivered, the second one a record that was queued after
\* the first flush body had run; nothing is left queued or armed
C2_Witness ==
    /\ \E i \in DOMAIN callLog : \E j \in DOMAIN callLog :
            /\ callLog[i].round = 1
            /\ callLog[j].round > 1
    /\ DeliveredIds = 1..MaxCalls
    /\ QueuedIds \cup ArmedIds = {}

\* no queue and no batch holds two adjacent identical records
C3_QueuesDedup ==
    /\ \A o \in Observers : NoAdjacentDup(recordQueue[o])
    /\ \A i \in DOMAIN tasks : NoAdjacentDup(tasks[i].queue)
    /\ \A i \in DOMAIN callLog : NoAdjacentDup(callLog[i].queue)

\* C3: no queue and no batch holds two adjacent identical records; a
\* queueRecord call with the queue's last record leaves the queue as it is,
\* with any other record it appends the record at the end.
C3_Dedup ==
    /\ []C3_QueuesDedup
    /\ [][ \A o \in Observers, r \in Records :
            QueueRecord(o, r) =>
                LET q == Recs(recordQueue[o])
                IN  Recs(recordQueue'[o]) =
                        IF Len(q) > 0 /\ q[Len(q)] = r THEN q ELSE Append(q, r) ]_vars

\* r1 was enqueued twice in a row for one observer before the flush: the
\* second call left no entry, and the batch delivered is <<r1>>
C3_Witness ==
    /\ calls = 2
    /\ Len(roundLog) = 1
    /\ Len(callLog) = 1
    /\ Recs(callLog[1].queue) = <<"r1">>
    /\ callLog[1].queue[1].id = 1
    /\ drained = {}
    /\ QueuedIds \cup ArmedIds = {}

\* the entries the flush body of round k found queued
FoundIds(k) == UNION {Ids(roundLog[k].recordQueue[o]) : o \in Observers}

\* C4: before the host has run any deferred function, all the enqueues made
\* have armed one flush function, not one each; the flush body that runs
\* first takes every observer of the notifyList, the deliveries it arms are
\* those observers in the order in which they were enqueued, and no later
\* flush body finds any of their entries.
C4_Coalescing ==
    /\ BeforeFirstTurn =>
            tasks = IF calls > 0 THEN <<FlushTask>> ELSE <<>>
    /\ Len(SelectSeq(tasks, LAMBDA t : t.type = "flush")) <= 1
    /\ \A k \in Rounds : ArmedSeq(k) = EnqueueOrder(k)
    /\ \A j \in Rounds : \A k \in Rounds : j < k => FoundIds(j) \cap FoundIds(k) = {}

\* the first flush body found every observer once in the notifyList, each
\* enqueued by its own call, and has armed a delivery for each
C4_Witness ==
    /\ Len(roundLog) = 1
    /\ Len(roundLog[1].notifyList) = Cardinality(Observers)
    /\ Range(roundLog[1].notifyList) = Observers
    /\ Len(TasksOfRound(1)) = Cardinality(Observers)

\* round k as it is when no callback disturbs it
C5_RoundIsolated(k) ==
    /\ ArmedSeq(k) = EnqueueOrder(k)
    /\ numCallbacks[k] = Len(TasksOfRound(k))
    /\ (numCallbacks[k] = 0 /\ CallsOfRound(k) # <<>>) =>
            (scheduled \/ Len(roundLog) > k)

\* C5: a callback that raises changes nothing for the others: each delivery
\* the round armed is still run or still waiting to run with its batch, the
\* round's counter counts exactly the deliveries that have not run, and once
\* the last one has run the flush is armed again.
C5_ErrorIsolation ==
    \A k \in Rounds :
        (\E i \in DOMAIN callLog : callLog[i].round = k /\ callLog[i].raised) =>
            C5_RoundIsolated(k)

\* in one round the first callback raised and the second, another observer's,
\* was invoked after it
C5_Witness ==
    \E i \in DOMAIN callLog : \E j \in DOMAIN callLog :
        /\ i < j
        /\ callLog[i].round = callLog[j].round
        /\ callLog[i].raised
        /\ callLog[i].observer # callLog[j].observer
        /\ numCallbacks[callLog[i].round] = 0

\* the entries a callback enqueued that are still in an observer's queue
CallbackQueuedIds ==
    UNION {{recordQueue[o][i].id : i \in {j \in DOMAIN recordQueue[o] : recordQueue[o][j].from > 0}}
            : o \in Observers}

\* a batch never holds an entry enqueued by a callback of its own round or of
\* a later one
C6_NotInCurrentRound ==
    \A i \in DOMAIN callLog : \A j \in DOMAIN callLog[i].queue :
        callLog[i].queue[j].from > 0 => callLog[i].round > callLog[i].queue[j].from

\* C6 as stated: (the host runs every deferred function) an entry a callback
\* enqueued is in no batch of the round of that callback, is never dropped,
\* and is eventually passed to a callback in a later round.
C6_AsStated ==
    /\ []C6_NotInCurrentRound
    /\ [](\A e \in drained : e.from = 0)
    /\ \A id \in 1..MaxCalls : (id \in CallbackQueuedIds) ~> (id \in DeliveredIds)

\* C6, amended: (the host runs every deferred function) an entry a callback
\* enqueued is in no batch of the round of that callback, and is eventually
\* passed to a callback in a later round unless clear() or an external
\* takeRecords() removes it first.
C6_Rearming ==
    /\ []C6_NotInCurrentRound
    /\ \A id \in 1..MaxCalls :
            (id \in CallbackQueuedIds) ~> (id \in DeliveredIds \/ id \in DrainedIds)

\* a callback of round 1 enqueued a record for its own observer, and a
\* callback of a later round was passed it
C6_Witness ==
    \E i \in DOMAIN callLog : \E j \in DOMAIN callLog :
        /\ callLog[i].round = 1
        /\ callLog[j].round > 1
        /\ callLog[j].observer = callLog[i].observer
        /\ \E n \in DOMAIN callLog[j].queue : callLog[j].queue[n].from = 1

\* C7: in one round no observer has two deliveries, however often it occurs
\* in the notifyList; its one delivery carries the whole queue the observer
\* had when the flush body began, in the order of the queueRecord calls.
C7_OncePerRound ==
    \A k \in Rounds :
        LET armed == ArmedSeq(k)
        IN  /\ \A i \in DOMAIN armed : \A j \in DOMAIN armed :
                    armed[i].observer = armed[j].observer => i = j
            /\ \A i \in DOMAIN armed :
                    /\ armed[i].queue = roundLog[k].recordQueue[armed[i].observer]
                    /\ \A m \in DOMAIN armed[i].queue : \A n \in DOMAIN armed[i].queue :
                            m < n => armed[i].queue[m].id < armed[i].queue[n].id

\* an observer that was twice on the notifyList got one callback in that
\* round, with both its records
C7_Witness ==
    \E i \in DOMAIN callLog :
        /\ Occurrences(roundLog[callLog[i].round].notifyList, callLog[i].observer) = 2
        /\ Len(callLog[i].queue) = 2
        /\ Len(CallsOfRound(callLog[i].round)) = 1
        /\ TasksOfRound(callLog[i].round) = <<>>

CleanupCount(k, o) ==
    Cardinality({i \in DOMAIN cleanupLog :
                    cleanupLog[i].round = k /\ cleanupLog[i].observer = o})

\* observer o was on the notifyList with an empty queue when the flush body
\* of round k began
EmptyAtFlush(k, o) ==
    /\ o \in Range(roundLog[k].notifyList)
    /\ roundLog[k].recordQueue[o] = <<>>

NoCallback(k, o) == \A i \in DOMAIN callLog : ~(callLog[i].round = k /\ callLog[i].observer = o)

\* C8 as stated: an observer on the notifyList with an empty queue gets no
\* callback in that round and exactly one cleanup, however often it occurs
\* in the notifyList.
C8_AsStated ==
    \A k \in Rounds : \A o \in Observers :
        EmptyAtFlush(k, o) => NoCallback(k, o) /\ CleanupCount(k, o) = 1

\* C8, amended: an observer on the notifyList with an empty queue gets no
\* callback in that round and one cleanup for each of its occurrences in the
\* notifyList (exactly one when it occurs once).
C8_EmptyBatchSkip ==
    \A k \in Rounds : \A o \in Observers :
        EmptyAtFlush(k, o) =>
            /\ NoCallback(k, o)
            /\ CleanupCount(k, o) = Occurrences(roundLog[k].notifyList, o)
            /\ \A i \in DOMAIN tasks : ~(tasks[i].round = k /\ tasks[i].observer = o)

\* a flush body has found an observer twice on the notifyList, with its
\* records already taken, and has cleaned up for it twice
C8_Witness ==
    \E k \in Rounds : \E o \in Observers :
        /\ EmptyAtFlush(k, o)
        /\ Occurrences(roundLog[k].notifyList, o) = 2
        /\ CleanupCount(k, o) = 2

\* C9: clear() empties the queue of every observer on the notifyList and the
\* notifyList, leaves the other queues, scheduled, the host's queue and the
\* callbacks alone; no entry it removed is ever armed for delivery or passed
\* to a callback.
C9_ClearFrame ==
    /\ [](DrainedIds \cap (ArmedIds \cup DeliveredIds \cup QueuedIds) = {})
    /\ [][ Clear =>
            /\ \A o \in Observers :
                    recordQueue'[o] = IF o \in Range(notifyList) THEN <<>> ELSE recordQueue[o]
            /\ notifyList' = <<>>
            /\ drained' = drained \cup UNION {Range(recordQueue[o]) : o \in Range(notifyList)}
            /\ UNCHANGED <<scheduled, tasks, numCallbacks, callLog, cleanupLog>> ]_vars

\* two observers were enqueued, clear() was called, and the flush armed by the
\* first enqueue has run since: it found nothing and no callback was invoked
C9_Witness ==
    /\ calls = 2
    /\ DrainedIds = {1, 2}
    /\ Len(roundLog) = 1
    /\ roundLog[1].notifyList = <<>>
    /\ callLog = <<>>
    /\ tasks = <<>>
    /\ ~scheduled
    /\ cleanupLog = <<>>

\* C10: a queueRecord call with the last record of the observer's queue
\* changes no queue, not the notifyList, not scheduled, and hands nothing to
\* the host.
C10_DuplicateFrame ==
    [][ \A o \in Observers, r \in Records :
            ( /\ QueueRecord(o, r)
              /\ recordQueue[o] # <<>>
              /\ recordQueue[o][Len(recordQueue[o])].rec = r ) =>
                UNCHANGED <<recordQueue, notifyList, scheduled, tasks, numCallbacks>> ]_vars

\* the second call repeated the first: one entry, one observer on the
\* notifyList, and the flush armed by the first call still armed
C10_Witness ==
    /\ calls = 2
    /\ QueuedIds = {1}
    /\ Len(notifyList) = 1
    /\ scheduled
    /\ tasks = <<FlushTask>>
    /\ drained = {}

\* the entries enqueued from inside a flush body that are still in a queue
ReentrantQueued(o) ==
    {i \in DOMAIN recordQueue[o] : recordQueue[o][i].from < 0}

\* C11: an entry enqueued from inside the flush body is not lost: when the
\* flush body has returned, its observer is on the notifyList and a flush is
\* armed, so that a later round delivers it.
C11_AsStated ==
    \A o \in Observers :
        ReentrantQueued(o) # {} => (o \in Range(notifyList) /\ scheduled)

FlushTasks == SelectSeq(tasks, LAMBDA t : t.type = "flush")

\* this step runs a delivery function
DeliveryStep ==
    /\ tasks # <<>>
    /\ Head(tasks).type = "deliver"
    /\ callLog' # callLog

\* this step runs the last outstanding delivery of its round
RoundEnds ==
    /\ DeliveryStep
    /\ numCallbacks'[Head(tasks).round] = 0

\* this step runs a flush function
FlushStep ==
    /\ tasks # <<>>
    /\ Head(tasks).type = "flush"
    /\ roundLog' # roundLog

\* C12 as stated: when the last outstanding delivery of a round finishes
\* and the notifyList is empty, no flush is armed by it: scheduled stays
\* false and no flush function is handed to the host.
C12_AsStated ==
    [][ (RoundEnds /\ ~scheduled /\ notifyList' = <<>>) =>
            (~scheduled' /\ FlushTasks' = <<>>) ]_vars

\* C12, amended: when the last outstanding delivery of a round finishes, a
\* flush is armed whether or not the notifyList is empty (one flush function
\* is in the host's queue afterwards, the one already armed or a new one); a
\* flush body that runs on an empty notifyList arms no delivery and no flush,
\* which leaves the scheduler idle.
C12_Rearm ==
    /\ [][ RoundEnds =>
            /\ scheduled'
            /\ Len(FlushTasks') = 1
            /\ scheduled \/ tasks' = Append(Tail(tasks), FlushTask) ]_vars
    /\ [][ (FlushStep /\ notifyList = <<>>) =>
            /\ ~scheduled'
            /\ tasks' = Tail(tasks)
            /\ notifyList' = <<>>
            /\ numCallbacks' = Append(numCallbacks, 0) ]_vars

\* a round has delivered, nothing was enqueued or cleared since, and the
\* flush its last delivery armed has run on the empty notifyList
C12_Witness ==
    /\ Len(roundLog) = 2
    /\ roundLog[2].notifyList = <<>>
    /\ Len(callLog) = 1
    /\ calls = 1
    /\ drained = {}
    /\ ~scheduled
    /\ tasks = <<>>

\* C13 as stated: scheduled is true iff a flush function has been handed to
\* the host and has not started, and it is false whenever the notifyList is
\* empty.
C13_AsStated ==
    /\ scheduled <=> FlushTasks # <<>>
    /\ notifyList = <<>> => ~scheduled

\* C13, amended: scheduled is true iff a flush function has been handed to
\* the host and has not started; the flush function resets it when it starts.
\* It may be true while the notifyList is empty.
C13_Armed ==
    /\ [](scheduled <=> FlushTasks # <<>>)
    /\ [][ FlushStep => ~scheduled' ]_vars
    /\ [][ (~scheduled /\ scheduled') =>
            (tasks' # <<>> /\ tasks'[Len(tasks')] = FlushTask) ]_vars

\* clear() has emptied the notifyList and the flush armed before it is still
\* armed
C13_Witness ==
    /\ scheduled
    /\ notifyList = <<>>
    /\ FlushTasks = <<FlushTask>>
    /\ drained # {}
    /\ roundLog = <<>>

\* every round's counter is the number of its deliveries that have not run,
\* and is zero only when every delivery the round armed has run
C14_CounterIsOutstanding ==
    /\ DOMAIN numCallbacks = Rounds
    /\ \A k \in Rounds :
            /\ numCallbacks[k] >= 0
            /\ numCallbacks[k] = Len(TasksOfRound(k))
            /\ numCallbacks[k] + Len(CallsOfRound(k)) = Len(EnqueueOrder(k))
            /\ numCallbacks[k] = 0 => Len(CallsOfRound(k)) = Len(EnqueueOrder(k))

\* C14: a round's counter is never negative and equals the number of the
\* round's armed deliveries that have not finished; a delivery, whether its
\* callback raises or not, lowers its own round's counter by one in the step
\* that runs its cleanup and its callback, and no other step lowers a counter.
C14_Counter ==
    /\ []C14_CounterIsOutstanding
    /\ [][ DeliveryStep =>
            /\ numCallbacks' = [numCallbacks EXCEPT ![Head(tasks).round] = @ - 1]
            /\ Len(cleanupLog') = Len(cleanupLog) + 1
            /\ Len(callLog') = Len(callLog) + 1 ]_vars
    /\ [][ \A k \in DOMAIN numCallbacks :
            numCallbacks'[k] < numCallbacks[k] => DeliveryStep ]_vars

\* a round armed two deliveries; the first has run and its callback raised,
\* the second is outstanding and the counter is 1
C14_Witness ==
    \E k \in Rounds :
        /\ Len(EnqueueOrder(k)) = 2
        /\ Len(CallsOfRound(k)) = 1
        /\ CallsOfRound(k)[1].raised
        /\ numCallbacks[k] = 1

\* C15: at most one flush function is in the host's queue, not yet started;
\* an enqueue or a round's last delivery that calls scheduleInvoke while a
\* flush is armed hands nothing to the host.
C15_ArmIdempotent ==
    /\ [](Len(FlushTasks) <= 1)
    /\ [][ (scheduled /\ ProducerEnqueue) => (scheduled' /\ tasks' = tasks) ]_vars
    /\ [][ (scheduled /\ DeliveryStep) => (scheduled' /\ tasks' = Tail(tasks)) ]_vars

\* the last delivery of a round ran while the flush armed by a producer's
\* enqueue was waiting: its scheduleInvoke call deferred nothing
C15_Witness ==
    /\ tasks = <<FlushTask>>
    /\ scheduled
    /\ Len(roundLog) = 1
    /\ Len(callLog) = 1
    /\ numCallbacks[1] = 0
    /\ notifyList # <<>>
    /\ callLog[1].queue[1].id = 1
    /\ \E o \in Observers : recordQueue[o] # <<>> /\ recordQueue[o][1].from = 0

\* the callbacks of round k so far are the first of the round's observers, in
\* the order of their first occurrence in the notifyList the flush body found
C16_InListOrder(k) ==
    /\ Len(CallsOfRound(k)) <= Len(EnqueueOrder(k))
    /\ \A i \in 1..Len(CallsOfRound(k)) :
            CallsOfRound(k)[i].observer = EnqueueOrder(k)[i].observer

\* C16: the callbacks of a round are invoked in the order in which their
\* observers first occur in the notifyList the flush body found; the step
\* that runs the flush body empties the notifyList and invokes no callback,
\* and every delivery runs in a later step.
C16_FifoOrder ==
    /\ [](\A k \in Rounds : C16_InListOrder(k))
    /\ [][ FlushStep => (notifyList' = <<>> /\ callLog' = callLog) ]_vars
    /\ [][ DeliveryStep =>
            /\ Head(tasks).round \in Rounds
            /\ roundLog' = roundLog
            /\ callLog'[Len(callLog')].observer =
                    EnqueueOrder(Head(tasks).round)
                        [Len(CallsOfRound(Head(tasks).round)) + 1].observer ]_vars

\* B was enqueued before A; the flush body found <<B, A>> and the callbacks
\* of the round were B's, then A's
C16_Witness ==
    \E k \in Rounds :
        /\ roundLog[k].notifyList = <<"B", "A">>
        /\ Len(CallsOfRound(k)) = 2
        /\ CallsOfRound(k)[1].observer = "B"
        /\ CallsOfRound(k)[2].observer = "A"

\* the callback invocation c was given a non-empty batch, the records the
\* flush body of its round took from its observer's queue, and the last thing
\* done before it was entered was the cleanup of that observer by the
\* delivery function of that round
C17_CleanedThenCalled(c) ==
    /\ c.queue # <<>>
    /\ c.observer \in Observers
    /\ c.round \in Rounds
    /\ c.queue = roundLog[c.round].recordQueue[c.observer]
    /\ c.cleanups \in DOMAIN cleanupLog
    /\ cleanupLog[c.cleanups] =
            [observer |-> c.observer, round |-> c.round, where |-> "deliver"]

\* C17: every callback invocation receives a non-empty batch and its own
\* observer, and the cleanup of that observer is made by the same delivery
\* function immediately before the callback is entered; no callback is invoked
\* with an empty batch or without that cleanup.
C17_CleanupThenCallback ==
    /\ [](\A i \in DOMAIN callLog : C17_CleanedThenCalled(callLog[i]))
    /\ [][ callLog' # callLog =>
            /\ DeliveryStep
            /\ Len(callLog') = Len(callLog) + 1
            /\ Len(cleanupLog') = Len(cleanupLog) + 1
            /\ callLog'[Len(callLog')].cleanups = Len(cleanupLog')
            /\ callLog'[Len(callLog')].observer = Head(tasks).observer
            /\ callLog'[Len(callLog')].queue = Head(tasks).queue ]_vars

\* a callback was given two records, after the cleanup of its observer, the
\* second cleanup of the run
C17_Witness ==
    \E i \in DOMAIN callLog :
        /\ Len(callLog[i].queue) = 2
        /\ callLog[i].cleanups = 2
        /\ cleanupLog[1].where = "flush"

\* C18: between tasks, every observer whose recordQueue is non-empty is on the
\* notifyList and a flush is armed.
C18_AsStated ==
    \A o \in Observers :
        recordQueue[o] # <<>> => (o \in Range(notifyList) /\ scheduled)

\* the rounds with a delivery function still to run
OutstandingRounds == {k \in DOMAIN numCallbacks : numCallbacks[k] > 0}

\* C19: flush rounds never overlap.  The host holds no flush function ahead
\* of a delivery function, the delivery functions it holds are of one round,
\* and a flush body starts only when no round has a delivery outstanding,
\* whatever the producers, clear() and the callbacks did in between.
C19_NoOverlap ==
    /\ [](\A i \in DOMAIN tasks : \A j \in DOMAIN tasks :
            (tasks[i].type = "flush" /\ tasks[j].type = "deliver") => j < i)
    /\ [](Cardinality(OutstandingRounds) <= 1)
    /\ [][ FlushStep => OutstandingRounds = {} ]_vars

\* a producer enqueued while the delivery of round 1 was outstanding: the
\* flush it armed waits behind the delivery function
C19_Witness ==
    /\ Len(tasks) = 2
    /\ tasks[1].type = "deliver"
    /\ tasks[2] = FlushTask
    /\ OutstandingRounds = {1}
    /\ notifyList # <<>>
    /\ callLog = <<>>

\* nothing pending, nothing armed, nothing outstanding
Quiescent ==
    /\ notifyList = <<>>
    /\ ~scheduled
    /\ tasks = <<>>
    /\ \A k \in DOMAIN numCallbacks : numCallbacks[k] = 0

\* C20: with finitely many enqueues the NotifyList eventually becomes
\* quiescent and stays so: the notifyList is empty, no flush is armed, no
\* delivery is outstanding, and no flush body or callback runs any more.
\* Only a producer's enqueue ends quiescence; a flush body that finds the
\* notifyList empty arms nothing, and there are at most two flush rounds for
\* each enqueue.
C20_Quiescence ==
    /\ <>[]Quiescent
    /\ [][ Quiescent =>
            \/ ProducerEnqueue
            \/ Quiescent' /\ roundLog' = roundLog /\ callLog' = callLog ]_vars
    /\ [][ (FlushStep /\ notifyList = <<>>) =>
            (tasks' = Tail(tasks) /\ ~scheduled') ]_vars
    /\ [](Len(roundLog) <= 2 * calls)

\* every enqueue has been made, a callback has run, the flush armed by the
\* last delivery found the notifyList empty, and nothing is left to run
C20_Witness ==
    /\ Quiescent
    /\ calls = MaxCalls
    /\ callLog # <<>>
    /\ Len(roundLog) >= 2
    /\ roundLog[Len(roundLog)].notifyList = <<>>

====
